---- MODULE Spec2Model ----
(***************************************************************************)
(* Session-state persistence through the Checkly variable store.           *)
(*                                                                         *)
(* Producer  : __checks__/storageState.spec.ts  (setup "login credentials")*)
(* Consumer  : crud-article.spec.ts (beforeAll / beforeEach / test) with   *)
(*             __checks__/utils/retrieveStorageState.ts                    *)
(* Store     : the variables endpoints of the Checkly public API           *)
(*             (GET / PUT /v1/variables/{key}).                            *)
(*                                                                         *)
(* Every run is an independent process; runs share only the store, so the  *)
(* model interleaves them at each await.                                   *)
(***************************************************************************)
EXTENDS Integers, Sequences, FiniteSets, TLC

(***************************************************************************)
(* Bounds of the model: how many runs of each check the scheduler starts.  *)
(***************************************************************************)
MaxProducerRuns == 2
MaxConsumerRuns == 1

(***************************************************************************)
(* The check group runs every check from each of its locations, so a check *)
(* has one run per location at a time; a location's run is started again   *)
(* when the check is next due.                                             *)
(***************************************************************************)
Locations == {"us-east-1", "eu-west-1"}

ProducerRuns == Locations
ConsumerRuns == Locations
LoginRuns == Locations

\* The tags of the group, which every check of the group carries as well.
GroupTags == {"login-group"}

\* Mutation: the crud-article check is tagged "storage" as well.
ChecksCrudTaggedStorage ==
    { [ id |-> "login-check", tags |-> {"check"},
        entrypoint |-> "login.spec.ts" ],
      [ id |-> "create-and-delete-article", tags |-> {"check", "storage"},
        entrypoint |-> "crud-article.spec.ts" ],
      [ id |-> "set-storage-state", tags |-> {"storage"},
        entrypoint |-> "storageState.spec.ts" ] }

\* The BrowserCheck constructs: logical id, tags, entrypoint.
Checks ==
    { [ id |-> "login-check", tags |-> {"check"},
        entrypoint |-> "login.spec.ts" ],
      [ id |-> "create-and-delete-article", tags |-> {"check"},
        entrypoint |-> "crud-article.spec.ts" ],
      [ id |-> "set-storage-state", tags |-> {"storage"},
        entrypoint |-> "storageState.spec.ts" ] }

\* No -t option: every check is selected.
NoTag == "none"

\* The checks `npx checkly test -t <tag>` selects: those that carry the tag.
Selected(tag) ==
    IF tag = NoTag THEN Checks
    ELSE {ch \in Checks : tag \in ch.tags \cup GroupTags}

\* Whether the check with this entrypoint is among the checks selected by tag.
Runs(entrypoint, tag) == \E ch \in Selected(tag) : ch.entrypoint = entrypoint

(***************************************************************************)
(* JavaScript values that flow through the scripts: strings, objects and   *)
(* undefined.  The tag keeps values of different types comparable.         *)
(***************************************************************************)
Range(seq) == {seq[i] : i \in DOMAIN seq}

JsUndefined == [type |-> "undefined"]
JsString(s) == [type |-> "string", str |-> s]
JsObject(o) == [type |-> "object", obj |-> o]

\* `${v}` : template literal / String(v) conversion.
TemplateLiteral(v) ==
    CASE v.type = "string"    -> v.str
      [] v.type = "undefined" -> "undefined"
      [] v.type = "object"    -> "[object Object]"

\* v[field] : property read.  A string or a missing field gives undefined;
\* reading a property of undefined throws (modelled by the callers).
GetProp(v, field) ==
    IF v.type = "object" /\ field \in DOMAIN v.obj
    THEN JsString(v.obj[field])
    ELSE JsUndefined

(***************************************************************************)
(* Data.  The slot key, the placeholder the README asks the operator to    *)
(* create the variable with, and the snapshots the browser can hand back   *)
(* from context().storageState().                                          *)
(***************************************************************************)
SlotKey == "STORAGE_STATE"
Placeholder == "placeholder"
AppOrigin == "https://app.example"
TokenName == "jwt"
ValidTokens == {"T1", "abc123"}

Entry(n, v) == [name |-> n, value |-> v]
Origin(ls) == [origin |-> AppOrigin, localStorage |-> ls]
Snapshot(os) == [cookies |-> <<>>, origins |-> os]

SnapshotSet ==
    { Snapshot(<<>>),
      Snapshot(<<Origin(<<Entry(TokenName, "T1")>>)>>),
      Snapshot(<<Origin(<<Entry(TokenName, "abc123"), Entry("theme", "dark")>>)>>) }

\* A snapshot that carries the token: origins[0].localStorage[0] exists.
HasToken(snapshot) ==
    /\ snapshot.origins # <<>>
    /\ snapshot.origins[1].localStorage # <<>>

(***************************************************************************)
(* The environment of a run.  The constructs of browser.check.ts give each *)
(* check its environmentVariables, with values read from the deployer's    *)
(* .env; a run is also given the variables defined for all checks.         *)
(***************************************************************************)
ScriptVariables ==
    {"USER_NAME", "PASSWORD", "PAGE_URL", "API_KEY", "CHECKLY_ACCOUNT_ID"}

\* process.env of the machine that evaluates the constructs.
DotEnv ==
    [ USER_NAME |-> "user@app.example", PASSWORD |-> "secret",
      PAGE_URL |-> "https://api.app.example/tags", API_KEY |-> "key",
      CHECKLY_ACCOUNT_ID |-> "account" ]

EnvVar(key, name) == [key |-> key, value |-> DotEnv[name]]

\* environmentVariables of the BrowserCheck constructs.
EnvironmentVariables(id) ==
    CASE id = "login-check" ->
           { EnvVar("USERNAME", "USER_NAME"), EnvVar("PASSWORD", "PASSWORD") }
      [] id = "create-and-delete-article" ->
           { EnvVar("API_KEY", "API_KEY"),
             EnvVar("CHECKLY_ACCOUNT_ID", "CHECKLY_ACCOUNT_ID") }
      [] id = "set-storage-state" ->
           { EnvVar("API_KEY", "API_KEY"),
             EnvVar("CHECKLY_ACCOUNT_ID", "CHECKLY_ACCOUNT_ID"),
             EnvVar("USERNAME", "USER_NAME"), EnvVar("PASSWORD", "PASSWORD"),
             EnvVar("PAGE_URL", "PAGE_URL") }

\* The process.env names a check's script reads, retrieveStorageState
\* included.
ScriptReads(entrypoint) ==
    CASE entrypoint = "login.spec.ts" -> {"USER_NAME", "PASSWORD"}
      [] entrypoint = "crud-article.spec.ts" -> {"API_KEY", "CHECKLY_ACCOUNT_ID"}
      [] entrypoint = "storageState.spec.ts" ->
           {"API_KEY", "CHECKLY_ACCOUNT_ID", "USER_NAME", "PASSWORD", "PAGE_URL"}

\* process.env[name] in a run of the check: the check's own variable of that
\* key, else the variable given to every run, else undefined.
ProcessEnv(id, name, global) ==
    IF \E e \in EnvironmentVariables(id) : e.key = name
    THEN JsString((CHOOSE e \in EnvironmentVariables(id) : e.key = name).value)
    ELSE IF name \in global THEN JsString(DotEnv[name])
    ELSE JsUndefined

\* The form of the login page: nothing filled in yet.
EmptyForm == [email |-> "", password |-> ""]

\* The application signs in the user whose credentials it knows.
ValidCredentials(form) ==
    form.email = DotEnv.USER_NAME /\ form.password = DotEnv.PASSWORD

\* What context().storageState() hands back for a session: the application
\* keeps the token of a signed-in user in local storage.
SessionSnapshots(state) ==
    IF state = "authenticated"
    THEN {s \in SnapshotSet : HasToken(s)}
    ELSE {s \in SnapshotSet : ~HasToken(s)}

(***************************************************************************)
(* JSON.stringify of a snapshot: the JSON text, built as the engine builds *)
(* it (members in insertion order, no whitespace).                         *)
(***************************************************************************)
RECURSIVE Join(_)
Join(texts) ==
    IF texts = <<>> THEN ""
    ELSE IF Len(texts) = 1 THEN texts[1]
    ELSE texts[1] \o "," \o Join(Tail(texts))

StringifyEntry(e) ==
    "{\"name\":\"" \o e.name \o "\",\"value\":\"" \o e.value \o "\"}"

StringifyOrigin(o) ==
    "{\"origin\":\"" \o o.origin \o "\",\"localStorage\":["
        \o Join([i \in 1..Len(o.localStorage) |-> StringifyEntry(o.localStorage[i])])
        \o "]}"

StringifySnapshot(s) ==
    "{\"cookies\":[],\"origins\":["
        \o Join([i \in 1..Len(s.origins) |-> StringifyOrigin(s.origins[i])])
        \o "]}"

\* JSON.stringify(undefined) is undefined; of a snapshot object, its text.
JSONstringify(v) ==
    IF v.type = "object" THEN JsString(StringifySnapshot(v.obj)) ELSE JsUndefined

(***************************************************************************)
(* State.                                                                  *)
(***************************************************************************)
VARIABLES
    variables,           \* the store: rows {key, value} of the account
    pc,                  \* Producer run -> the statement it is about to run
    storage,             \* Producer run -> const storage
    stringifiedStorage,  \* Producer run -> const stringifiedStorage
    request,             \* Producer run -> the PUT request it has issued
    putResponse,         \* Producer run -> status the store answered its PUT with
    trace,               \* Producer run -> collaborator calls completed so far
    signal,              \* Producer run -> whether the page has received the
                         \*   response with the awaited URL
    typed,               \* Producer run -> what has been filled into the form
    session,             \* Producer run -> whether the application has
                         \*   authenticated the browser session
    cpc,                 \* Consumer run -> the statement it is about to run
    responseStorageState,\* Consumer run -> the response of its GET
    storageState,        \* Consumer run -> module-level let storageState
    currentStorageState, \* Consumer run -> const currentStorageState of the
                         \*   hook of the non-extracting variant
    page,                \* Consumer run -> load state of the test's page
    localStorage,        \* Consumer run -> local storage of the test's page
    hookTrace,           \* Consumer run -> page calls made for the current test
    recording,           \* whether the order of captures, writes and reads
                         \*   across runs is being recorded
    lastCaptured,        \* the Producer run that captured most recently
    lastWriter,          \* the Producer run whose PUT was applied most recently
    writtenAt,           \* the minute at which the most recent recorded PUT was applied
    servedAge,           \* Consumer run -> minutes between the write it read and its GET
    inFlightAtGet,       \* Consumer run -> the Producer runs that were between
                         \*   login and write when its GET was served
    producerStarts,      \* number of Producer runs started so far
    consumerStarts,      \* number of Consumer runs started so far
    tagFilter,           \* the tag the runs are selected by (-t), or NoTag
    now,                 \* minutes since the schedule began
    globalEnv,           \* the names of the variables every run is given from
                         \*   outside its construct (global level, -e)
    lpc,                 \* login check run -> the statement it is about to run
    apc                  \* the API setup: the statement it is about to run

producerVars == <<pc, storage, stringifiedStorage, request, putResponse,
                  trace, signal, typed, session, recording, lastCaptured,
                  lastWriter, writtenAt, producerStarts>>
consumerVars == <<cpc, responseStorageState, storageState,
                  currentStorageState, page, localStorage, hookTrace,
                  inFlightAtGet, servedAge, consumerStarts>>
otherVars == <<tagFilter, globalEnv, now, lpc, apc>>
vars == <<variables, producerVars, consumerVars, otherVars>>

(***************************************************************************)
(* The variable store.                                                     *)
(***************************************************************************)
KnownKeys == {SlotKey, "loginToken"}

VariablePath(key) == "variables/" \o key

\* The {key} segment a request path addresses ("" when it names no variable).
PathKey(path) ==
    IF \E k \in KnownKeys : path = VariablePath(k)
    THEN CHOOSE k \in KnownKeys : path = VariablePath(k)
    ELSE ""

Rows(key) == {r \in variables : r.key = key}

\* Mutation: the store answers 200 to a PUT of a variable it does not have.
PutStatusAlwaysOk(path) == 200

\* PUT /v1/variables/{key}: "Uses the key field as the ID for updating. Only
\* updates value and locked property"; 404 when there is no such variable.
PutStatus(path) == IF Rows(PathKey(path)) = {} THEN 404 ELSE 200

\* Mutation: the update creates the variable when there is none.
PutApplyCreates(path, body) ==
    (variables \ Rows(PathKey(path)))
        \cup {[key |-> PathKey(path), value |-> body.data.value]}

\* Mutation: the first snapshot written wins, later updates are dropped.
PutApplyKeepsFirst(path, body) ==
    IF Rows(PathKey(path)) = {} \/ \E r \in Rows(PathKey(path)) : r.value # Placeholder
    THEN variables
    ELSE (variables \ Rows(PathKey(path)))
            \cup {[key |-> PathKey(path), value |-> body.data.value]}

\* Mutation: the update adds a row and keeps the previous one.
PutApplyKeepsOld(path, body) ==
    IF Rows(PathKey(path)) = {}
    THEN variables
    ELSE variables \cup {[key |-> PathKey(path), value |-> body.data.value]}

PutApply(path, body) ==
    IF Rows(PathKey(path)) = {}
    THEN variables
    ELSE (variables \ Rows(PathKey(path)))
            \cup {[key |-> PathKey(path), value |-> body.data.value]}

\* 401 Unauthorized, the answer to a request whose credentials are not accepted.
Unauthorized == 401

\* context.put / context.get reject when the store answers with an error.
ContextThrows(status) == status >= 400

(***************************************************************************)
(* Producer: setup("login credentials") of storageState.spec.ts.           *)
(***************************************************************************)
\* Mutation: the PUT is issued right after the click, before the wait.
ProducerStepsPutBeforeWait ==
    << "createChecklyContext", "goto", "clickSignIn", "fillEmail",
       "fillPassword", "clickButton", "put", "waitForResponse", "storageState",
       "stringify" >>

ProducerSteps ==
    << "createChecklyContext", "goto", "clickSignIn", "fillEmail",
       "fillPassword", "clickButton", "waitForResponse", "storageState",
       "stringify", "put" >>

StepIndex(step) == CHOOSE i \in 1..Len(ProducerSteps) : ProducerSteps[i] = step

\* Mutation: once the PUT is answered the setup issues it again.
AfterRetriesPut(step) ==
    IF step = "put" THEN "put"
    ELSE IF StepIndex(step) < Len(ProducerSteps)
         THEN ProducerSteps[StepIndex(step) + 1]
         ELSE "passed"

\* The statement that follows `step` in the body of the setup.
After(step) ==
    IF StepIndex(step) < Len(ProducerSteps)
    THEN ProducerSteps[StepIndex(step) + 1]
    ELSE "passed"

NoRequest == [method |-> "none"]

\* No answer received (yet).
NoStatus == 0

\* No run (has captured, has written).
NoRun == "none"

\* No recorded write has been applied yet.
NoTime == -1

\* Mutation: the body names another variable than the path does.
PutRequestOtherBodyKey(key, value) ==
    [ method |-> "PUT",
      path   |-> VariablePath(key),
      body   |-> [data |-> [key |-> "loginToken", value |-> value]] ]

PutRequest(key, value) ==
    [ method |-> "PUT",
      path   |-> VariablePath(key),
      body   |-> [data |-> [key |-> key, value |-> value]] ]

\* A run of the location begins, in a new process, once the previous run of
\* that location has ended.
ProducerBegins(p) ==
    /\ Runs("storageState.spec.ts", tagFilter)
    /\ pc[p] \in {"idle", "passed", "failed"}
    /\ producerStarts' = producerStarts + 1
    /\ pc' = [pc EXCEPT ![p] = ProducerSteps[1]]
    /\ storage' = [storage EXCEPT ![p] = JsUndefined]
    /\ stringifiedStorage' = [stringifiedStorage EXCEPT ![p] = JsUndefined]
    /\ request' = [request EXCEPT ![p] = NoRequest]
    /\ putResponse' = [putResponse EXCEPT ![p] = NoStatus]
    /\ trace' = [trace EXCEPT ![p] = <<>>]
    /\ signal' = [signal EXCEPT ![p] = "pending"]
    /\ typed' = [typed EXCEPT ![p] = EmptyForm]
    /\ session' = [session EXCEPT ![p] = "anonymous"]
    /\ UNCHANGED <<variables, consumerVars, otherVars>>
    /\ UNCHANGED <<recording, lastCaptured, lastWriter, writtenAt>>

\* The scheduler starts the location's run; the number of runs explored is
\* bounded.
ProducerStart(p) ==
    /\ producerStarts < MaxProducerRuns
    /\ ProducerBegins(p)

\* An awaited call that touches only the run's own page or context.
LocalStep(p, step) ==
    /\ pc[p] = step
    /\ pc' = [pc EXCEPT ![p] = After(step)]
    /\ trace' = [trace EXCEPT ![p] = Append(@, step)]
    /\ UNCHANGED <<variables, storage, stringifiedStorage, request, putResponse,
                   producerStarts, consumerVars, otherVars>>
    /\ UNCHANGED <<recording, lastCaptured, lastWriter, writtenAt, signal,
                 typed, session>>

CreateChecklyContext(p) == LocalStep(p, "createChecklyContext")
Goto(p) == LocalStep(p, "goto")
ClickSignIn(p) == LocalStep(p, "clickSignIn")

\* page.getByRole("textbox", {name: "Email"}).fill(`${process.env.USER_NAME}`)
FillEmail(p) ==
    /\ pc[p] = "fillEmail"
    /\ typed' = [typed EXCEPT ![p].email =
           TemplateLiteral(ProcessEnv("set-storage-state", "USER_NAME", globalEnv))]
    /\ pc' = [pc EXCEPT ![p] = After("fillEmail")]
    /\ trace' = [trace EXCEPT ![p] = Append(@, "fillEmail")]
    /\ UNCHANGED <<variables, storage, stringifiedStorage, request, putResponse,
                   producerStarts, consumerVars, otherVars>>
    /\ UNCHANGED <<recording, lastCaptured, lastWriter, writtenAt, signal, session>>

\* page.getByRole("textbox", {name: "Password"}).fill(`${process.env.PASSWORD}`)
FillPassword(p) ==
    /\ pc[p] = "fillPassword"
    /\ typed' = [typed EXCEPT ![p].password =
           TemplateLiteral(ProcessEnv("set-storage-state", "PASSWORD", globalEnv))]
    /\ pc' = [pc EXCEPT ![p] = After("fillPassword")]
    /\ trace' = [trace EXCEPT ![p] = Append(@, "fillPassword")]
    /\ UNCHANGED <<variables, storage, stringifiedStorage, request, putResponse,
                   producerStarts, consumerVars, otherVars>>
    /\ UNCHANGED <<recording, lastCaptured, lastWriter, writtenAt, signal, session>>

\* page.getByRole("button").click(): the form is submitted.  The application
\* signs the session in for credentials it knows, unless it rejects the login
\* for a reason of its own; it rejects any other credentials.
ClickButton(p) ==
    /\ pc[p] = "clickButton"
    /\ \E outcome \in
           (IF ValidCredentials(typed[p]) THEN {"authenticated"} ELSE {})
               \cup {"anonymous"} :
          session' = [session EXCEPT ![p] = outcome]
    /\ pc' = [pc EXCEPT ![p] = After("clickButton")]
    /\ trace' = [trace EXCEPT ![p] = Append(@, "clickButton")]
    /\ UNCHANGED <<variables, storage, stringifiedStorage, request, putResponse,
                   producerStarts, consumerVars, otherVars>>
    /\ UNCHANGED <<recording, lastCaptured, lastWriter, writtenAt, signal, typed>>

\* page.waitForResponse(`${process.env.PAGE_URL}`) is called: it registers a
\* listener for the responses the page receives from then on.
WaitForResponse(p) ==
    /\ pc[p] = "waitForResponse"
    /\ pc' = [pc EXCEPT ![p] = "awaitResponse"]
    /\ UNCHANGED <<variables, storage, stringifiedStorage, request, putResponse,
                   trace, producerStarts, consumerVars, otherVars>>
    /\ UNCHANGED <<recording, lastCaptured, lastWriter, writtenAt, signal,
                 typed, session>>

\* The page receives the response with the awaited URL, which the click on
\* the form's button has caused.  A registered listener is handed it and the
\* awaited call returns; with no listener registered yet it goes unobserved.
ResponseArrives(p) ==
    /\ pc[p] \in {"waitForResponse", "awaitResponse"}
    /\ signal[p] = "pending"
    /\ signal' = [signal EXCEPT ![p] = "arrived"]
    /\ UNCHANGED <<typed, session>>
    /\ IF pc[p] = "awaitResponse"
       THEN /\ pc' = [pc EXCEPT ![p] = After("waitForResponse")]
            /\ trace' = [trace EXCEPT ![p] = Append(@, "waitForResponse")]
       ELSE UNCHANGED <<pc, trace>>
    /\ UNCHANGED <<variables, storage, stringifiedStorage, request, putResponse,
                   producerStarts, consumerVars, otherVars>>
    /\ UNCHANGED <<recording, lastCaptured, lastWriter, writtenAt>>

\* Mutation: the wait has no timeout.
WaitForResponseNeverTimesOut(p) ==
    /\ FALSE
    /\ UNCHANGED vars

\* No response with the awaited URL is observed within the timeout of the
\* call: page.waitForResponse rejects and the run ends failed.
WaitForResponseTimesOut(p) ==
    /\ pc[p] = "awaitResponse"
    /\ pc' = [pc EXCEPT ![p] = "failed"]
    /\ storage' = [storage EXCEPT ![p] = JsUndefined]
    /\ stringifiedStorage' = [stringifiedStorage EXCEPT ![p] = JsUndefined]
    /\ trace' = [trace EXCEPT ![p] = <<>>]
    /\ signal' = [signal EXCEPT ![p] = "pending"]
    /\ typed' = [typed EXCEPT ![p] = EmptyForm]
    /\ session' = [session EXCEPT ![p] = "anonymous"]
    /\ UNCHANGED <<variables, request, putResponse, producerStarts,
                   consumerVars, otherVars>>
    /\ UNCHANGED <<recording, lastCaptured, lastWriter, writtenAt>>

\* const storage = await page.context().storageState();
StorageState(p) ==
    /\ pc[p] = "storageState"
    /\ \E s \in SessionSnapshots(session[p]) :
          storage' = [storage EXCEPT ![p] = JsObject(s)]
    /\ pc' = [pc EXCEPT ![p] = After("storageState")]
    /\ trace' = [trace EXCEPT ![p] = Append(@, "storageState")]
    /\ UNCHANGED <<variables, stringifiedStorage, request, putResponse,
                   producerStarts, consumerVars, otherVars>>
    /\ lastCaptured' = IF recording THEN p ELSE lastCaptured
    /\ UNCHANGED <<recording, lastWriter, writtenAt, signal,
                 typed, session>>

\* const stringifiedStorage = JSON.stringify(storage);
Stringify(p) ==
    /\ pc[p] = "stringify"
    /\ stringifiedStorage' =
           [stringifiedStorage EXCEPT ![p] = JSONstringify(storage[p])]
    /\ pc' = [pc EXCEPT ![p] = After("stringify")]
    /\ trace' = [trace EXCEPT ![p] = Append(@, "stringify")]
    /\ UNCHANGED <<variables, storage, request, putResponse, producerStarts,
                   consumerVars, otherVars>>
    /\ UNCHANGED <<recording, lastCaptured, lastWriter, writtenAt, signal,
                 typed, session>>

\* context.put(`variables/STORAGE_STATE`, {data: {key, value}}) is issued.
Put(p) ==
    /\ pc[p] = "put"
    /\ request' = [request EXCEPT ![p] =
           PutRequest(SlotKey, TemplateLiteral(stringifiedStorage[p]))]
    /\ pc' = [pc EXCEPT ![p] = "awaitPut"]
    /\ trace' = [trace EXCEPT ![p] = Append(@, "put")]
    /\ UNCHANGED <<variables, storage, stringifiedStorage, putResponse,
                   producerStarts, consumerVars, otherVars>>
    /\ UNCHANGED <<recording, lastCaptured, lastWriter, writtenAt, signal,
                 typed, session>>

\* The store serves the PUT and the awaited call settles.
StoreHandlePut(p) ==
    /\ pc[p] = "awaitPut"
    /\ variables' = PutApply(request[p].path, request[p].body)
    /\ putResponse' = [putResponse EXCEPT ![p] = PutStatus(request[p].path)]
    /\ pc' = [pc EXCEPT ![p] =
           IF ContextThrows(PutStatus(request[p].path))
           THEN "failed" ELSE After("put")]
    /\ UNCHANGED <<storage, stringifiedStorage, request, trace, producerStarts,
                   consumerVars, otherVars>>
    /\ lastWriter' = IF recording /\ PutStatus(request[p].path) = 200
                     THEN p ELSE lastWriter
    /\ writtenAt' = IF recording /\ PutStatus(request[p].path) = 200
                    THEN now ELSE writtenAt
    /\ UNCHANGED <<recording, lastCaptured, signal, typed, session>>

\* The store does not accept the credentials of the request (API key, account
\* id): it answers 401 and applies nothing; the awaited call settles.
StoreRejectsPut(p) ==
    /\ pc[p] = "awaitPut"
    /\ putResponse' = [putResponse EXCEPT ![p] = Unauthorized]
    /\ pc' = [pc EXCEPT ![p] =
           IF ContextThrows(Unauthorized) THEN "failed" ELSE After("put")]
    /\ UNCHANGED <<variables, storage, stringifiedStorage, request, trace,
                   producerStarts, consumerVars, otherVars>>
    /\ UNCHANGED <<recording, lastCaptured, lastWriter, writtenAt, signal,
                 typed, session>>

\* The request does not reach the store or its answer does not come back
\* (network error, timeout): the store applies nothing and context.put rejects.
PutFails(p) ==
    /\ pc[p] = "awaitPut"
    /\ pc' = [pc EXCEPT ![p] = "failed"]
    /\ UNCHANGED <<variables, storage, stringifiedStorage, request, putResponse,
                   trace, producerStarts, consumerVars, otherVars>>
    /\ UNCHANGED <<recording, lastCaptured, lastWriter, writtenAt, signal,
                 typed, session>>

\* Mutation: a handler of the failure still sends what the run has.
ProducerFailsThenPuts(p) ==
    /\ pc[p] \in {ProducerSteps[i] : i \in 1..Len(ProducerSteps)}
    /\ pc[p] # "stringify"
    /\ pc' = [pc EXCEPT ![p] = "failed"]
    /\ request' = [request EXCEPT ![p] =
           PutRequest(SlotKey, TemplateLiteral(stringifiedStorage[p]))]
    /\ UNCHANGED <<variables, storage, stringifiedStorage, putResponse, trace,
                   producerStarts, consumerVars, otherVars>>
    /\ UNCHANGED <<recording, lastCaptured, lastWriter, writtenAt, signal,
                 typed, session>>

\* An awaited call before the write is answered can reject (element not found
\* in time, response never seen, no connection): the exception leaves the
\* setup, the run ends failed and its process, with its page and its locals,
\* is gone.
ProducerFails(p) ==
    /\ pc[p] \in {ProducerSteps[i] : i \in 1..Len(ProducerSteps)}
    /\ pc[p] # "stringify"
    /\ pc' = [pc EXCEPT ![p] = "failed"]
    /\ storage' = [storage EXCEPT ![p] = JsUndefined]
    /\ stringifiedStorage' = [stringifiedStorage EXCEPT ![p] = JsUndefined]
    /\ trace' = [trace EXCEPT ![p] = <<>>]
    /\ signal' = [signal EXCEPT ![p] = "pending"]
    /\ typed' = [typed EXCEPT ![p] = EmptyForm]
    /\ session' = [session EXCEPT ![p] = "anonymous"]
    /\ UNCHANGED <<variables, request, putResponse, producerStarts,
                   consumerVars, otherVars>>
    /\ UNCHANGED <<recording, lastCaptured, lastWriter, writtenAt>>

\* The steps of a started run: its awaited calls returning or rejecting.
ProducerRun(p) ==
    \/ CreateChecklyContext(p)
    \/ Goto(p)
    \/ ClickSignIn(p)
    \/ FillEmail(p)
    \/ FillPassword(p)
    \/ ClickButton(p)
    \/ WaitForResponse(p)
    \/ ResponseArrives(p)
    \/ WaitForResponseTimesOut(p)
    \/ StorageState(p)
    \/ Stringify(p)
    \/ Put(p)
    \/ StoreHandlePut(p)
    \/ StoreRejectsPut(p)
    \/ PutFails(p)
    \/ ProducerFails(p)

ProducerNext(p) ==
    \/ ProducerStart(p)
    \/ ProducerRun(p)

(***************************************************************************)
(* Consumer: retrieveStorageState and the hooks of crud-article.spec.ts.   *)
(***************************************************************************)
NoResponse == [status |-> 0]

\* The Producer runs between their login (the click on the form's button) and
\* the application of their write.
InFlight ==
    {p \in ProducerRuns :
        pc[p] \in {"waitForResponse", "awaitResponse", "storageState",
                   "stringify", "put", "awaitPut"}}

\* Mutation: while a PUT is being applied the store shows an emptied value.
GetResponseDuringPut(path) ==
    IF Rows(PathKey(path)) = {}
    THEN [status |-> 404]
    ELSE IF \E p \in ProducerRuns : pc[p] = "awaitPut"
         THEN [status |-> 200, body |-> [key |-> PathKey(path), value |-> ""]]
         ELSE [status |-> 200, body |-> CHOOSE r \in Rows(PathKey(path)) : TRUE]

\* GET /v1/variables/{key} -> {key, value}; 404 when there is no such variable.
GetStatus(path) == IF Rows(PathKey(path)) = {} THEN 404 ELSE 200

GetResponse(path) ==
    IF Rows(PathKey(path)) = {}
    THEN [status |-> 404]
    ELSE [status |-> 200, body |-> CHOOSE r \in Rows(PathKey(path)) : TRUE]

\* The value retrieveStorageState returns for a response:
\*   responseData = await responseStorageState.json();
\*   parsedStorageState = responseData.value;  return parsedStorageState;
retrieveStorageState(response) == GetProp(JsObject(response.body), "value")

\* localStorage.setItem(name, value): both arguments are converted to strings;
\* an existing item of that name is replaced.
SetItem(ls, name, value) ==
    {e \in ls : e.name # TemplateLiteral(name)}
        \cup {Entry(TemplateLiteral(name), TemplateLiteral(value))}

\* page.evaluate(({ name, value }) => localStorage.setItem(name, value), arg)
EvaluateThrows(arg) == arg.type = "undefined"
EvaluateResult(ls, arg) == SetItem(ls, GetProp(arg, "name"), GetProp(arg, "value"))

\* Mutation: any stored entry makes the page show the logged-in links.
LoggedInWithAnyEntry(ls) == ls # {}

\* The application shows the logged-in links when the page loads with a valid
\* token in local storage; the test body clicks one of them.
LoggedIn(ls) == \E e \in ls : e.name = TokenName /\ e.value \in ValidTokens

\* Mutation: the local-storage write comes before the first navigation.
BeforeEachStepsWriteFirst == << "evaluate", "goto", "reload", "test" >>

\* The page calls of beforeEach, then the test body, in program order.
BeforeEachSteps == << "goto", "evaluate", "reload", "test" >>

HookIndex(step) ==
    CHOOSE i \in 1..Len(BeforeEachSteps) : BeforeEachSteps[i] = step

AfterHook(step) ==
    IF HookIndex(step) < Len(BeforeEachSteps)
    THEN BeforeEachSteps[HookIndex(step) + 1]
    ELSE "passed"

\* A run of the location begins, in a new process with a fresh browser,
\* once the previous run of that location has ended; beforeAll is entered.
ConsumerBegins(c) ==
    /\ Runs("crud-article.spec.ts", tagFilter)
    /\ cpc[c] \in {"idle", "passed", "failed"}
    /\ consumerStarts' = consumerStarts + 1
    /\ cpc' = [cpc EXCEPT ![c] = "get"]
    /\ responseStorageState' = [responseStorageState EXCEPT ![c] = NoResponse]
    /\ storageState' = [storageState EXCEPT ![c] = JsUndefined]
    /\ page' = [page EXCEPT ![c] = "blank"]
    /\ localStorage' = [localStorage EXCEPT ![c] = {}]
    /\ hookTrace' = [hookTrace EXCEPT ![c] = <<>>]
    /\ UNCHANGED <<variables, producerVars, otherVars>>
    /\ inFlightAtGet' = [inFlightAtGet EXCEPT ![c] = {}]
    /\ servedAge' = [servedAge EXCEPT ![c] = NoTime]
    /\ UNCHANGED currentStorageState

\* The scheduler starts the location's run; the number of runs explored is
\* bounded.
ConsumerStart(c) ==
    /\ consumerStarts < MaxConsumerRuns
    /\ ConsumerBegins(c)

\* beforeAll -> retrieveStorageState: context.get(`variables/STORAGE_STATE`).
Get(c) ==
    /\ cpc[c] = "get"
    /\ cpc' = [cpc EXCEPT ![c] = "awaitGet"]
    /\ UNCHANGED <<variables, producerVars, otherVars, responseStorageState, storageState,
                   page, localStorage, hookTrace, consumerStarts>>
    /\ UNCHANGED <<inFlightAtGet, servedAge, currentStorageState>>

\* Mutation: the store serves a GET only while no Producer run is between
\* its login and its write.
StoreHandleGetWaits(c) ==
    /\ InFlight = {}
    /\ cpc[c] = "awaitGet"
    /\ responseStorageState' =
           [responseStorageState EXCEPT ![c] = GetResponse(VariablePath(SlotKey))]
    /\ cpc' = [cpc EXCEPT ![c] =
           IF ContextThrows(GetStatus(VariablePath(SlotKey)))
           THEN "failed" ELSE "json"]
    /\ UNCHANGED <<variables, producerVars, otherVars, storageState, page,
                   localStorage, hookTrace, consumerStarts>>
    /\ inFlightAtGet' = [inFlightAtGet EXCEPT ![c] =
           IF recording THEN InFlight ELSE {}]
    /\ servedAge' = [servedAge EXCEPT ![c] =
           IF recording /\ writtenAt # NoTime THEN now - writtenAt ELSE NoTime]
    /\ UNCHANGED currentStorageState

\* The store serves the GET and the awaited call settles.
StoreHandleGet(c) ==
    /\ cpc[c] = "awaitGet"
    /\ responseStorageState' =
           [responseStorageState EXCEPT ![c] = GetResponse(VariablePath(SlotKey))]
    /\ cpc' = [cpc EXCEPT ![c] =
           IF ContextThrows(GetStatus(VariablePath(SlotKey)))
           THEN "failed" ELSE "json"]
    /\ UNCHANGED <<variables, producerVars, otherVars, storageState, page,
                   localStorage, hookTrace, consumerStarts>>
    /\ inFlightAtGet' = [inFlightAtGet EXCEPT ![c] =
           IF recording THEN InFlight ELSE {}]
    /\ servedAge' = [servedAge EXCEPT ![c] =
           IF recording /\ writtenAt # NoTime THEN now - writtenAt ELSE NoTime]
    /\ UNCHANGED currentStorageState

\* The rest of retrieveStorageState and the assignment in beforeAll; the
\* test then starts on a fresh page.
RetrieveReturn(c) ==
    /\ cpc[c] = "json"
    /\ storageState' =
           [storageState EXCEPT ![c] = retrieveStorageState(responseStorageState[c])]
    /\ cpc' = [cpc EXCEPT ![c] = BeforeEachSteps[1]]
    /\ UNCHANGED <<variables, producerVars, otherVars, responseStorageState, page,
                   localStorage, hookTrace, consumerStarts>>
    /\ UNCHANGED <<inFlightAtGet, servedAge, currentStorageState>>

\* Mutation: beforeEach reads the slot again before it opens the page.
BeforeEachGotoRetrieves(c) ==
    /\ cpc[c] = "goto"
    /\ page' = [page EXCEPT ![c] = "loaded"]
    /\ hookTrace' = [hookTrace EXCEPT ![c] = Append(@, "goto")]
    /\ cpc' = [cpc EXCEPT ![c] = AfterHook("goto")]
    /\ storageState' = [storageState EXCEPT ![c] =
           IF GetStatus(VariablePath(SlotKey)) = 200
           THEN retrieveStorageState(GetResponse(VariablePath(SlotKey)))
           ELSE @]
    /\ UNCHANGED <<variables, producerVars, otherVars, responseStorageState,
                   localStorage, consumerStarts>>
    /\ UNCHANGED <<inFlightAtGet, servedAge, currentStorageState>>

\* beforeEach: await page.goto(`${baseURL}`);
BeforeEachGoto(c) ==
    /\ cpc[c] = "goto"
    /\ page' = [page EXCEPT ![c] = "loaded"]
    /\ hookTrace' = [hookTrace EXCEPT ![c] = Append(@, "goto")]
    /\ cpc' = [cpc EXCEPT ![c] = AfterHook("goto")]
    /\ UNCHANGED <<variables, producerVars, otherVars, responseStorageState, storageState,
                   localStorage, consumerStarts>>
    /\ UNCHANGED <<inFlightAtGet, servedAge, currentStorageState>>

\* beforeEach: await page.evaluate(..., storageState);
BeforeEachEvaluate(c) ==
    /\ cpc[c] = "evaluate"
    /\ IF EvaluateThrows(storageState[c])
       THEN /\ cpc' = [cpc EXCEPT ![c] = "failed"]
            /\ UNCHANGED <<localStorage, hookTrace>>
       ELSE /\ localStorage' = [localStorage EXCEPT ![c] =
                   EvaluateResult(@, storageState[c])]
            /\ hookTrace' = [hookTrace EXCEPT ![c] = Append(@, "setItem")]
            /\ cpc' = [cpc EXCEPT ![c] = AfterHook("evaluate")]
    /\ UNCHANGED <<variables, producerVars, otherVars, responseStorageState, storageState,
                   page, consumerStarts>>
    /\ UNCHANGED <<inFlightAtGet, servedAge, currentStorageState>>

\* beforeEach: await page.reload({ waitUntil: "domcontentloaded" });
BeforeEachReload(c) ==
    /\ cpc[c] = "reload"
    /\ page' = [page EXCEPT ![c] = "reloaded"]
    /\ hookTrace' = [hookTrace EXCEPT ![c] = Append(@, "reload")]
    /\ cpc' = [cpc EXCEPT ![c] = AfterHook("reload")]
    /\ UNCHANGED <<variables, producerVars, otherVars, responseStorageState, storageState,
                   localStorage, consumerStarts>>
    /\ UNCHANGED <<inFlightAtGet, servedAge, currentStorageState>>

\* test("create article"): the body clicks "New Article", a link the page
\* shows only to a logged-in user, and the following controls.
Test(c) ==
    /\ cpc[c] = "test"
    /\ hookTrace' = [hookTrace EXCEPT ![c] = Append(@, "test")]
    /\ cpc' = [cpc EXCEPT ![c] =
           IF LoggedIn(localStorage[c]) THEN AfterHook("test") ELSE "failed"]
    /\ UNCHANGED <<variables, producerVars, otherVars, responseStorageState, storageState,
                   page, localStorage, consumerStarts>>
    /\ UNCHANGED <<inFlightAtGet, servedAge, currentStorageState>>

\* Any awaited call of the hooks can reject (timeout, network error): the
\* run ends failed and its process, with its browser and its locals, is gone.
ConsumerFails(c) ==
    /\ cpc[c] \in {"get", "awaitGet", "goto", "evaluate", "reload"}
    /\ cpc' = [cpc EXCEPT ![c] = "failed"]
    /\ responseStorageState' = [responseStorageState EXCEPT ![c] = NoResponse]
    /\ storageState' = [storageState EXCEPT ![c] = JsUndefined]
    /\ page' = [page EXCEPT ![c] = "blank"]
    /\ localStorage' = [localStorage EXCEPT ![c] = {}]
    /\ hookTrace' = [hookTrace EXCEPT ![c] = <<>>]
    /\ UNCHANGED <<variables, producerVars, otherVars, consumerStarts>>
    /\ inFlightAtGet' = [inFlightAtGet EXCEPT ![c] = {}]
    /\ servedAge' = [servedAge EXCEPT ![c] = NoTime]
    /\ UNCHANGED currentStorageState

\* The steps of a started run: its awaited calls returning or rejecting.
ConsumerRun(c) ==
    \/ Get(c)
    \/ StoreHandleGet(c)
    \/ RetrieveReturn(c)
    \/ BeforeEachGoto(c)
    \/ BeforeEachEvaluate(c)
    \/ BeforeEachReload(c)
    \/ Test(c)
    \/ ConsumerFails(c)

ConsumerNext(c) ==
    \/ ConsumerStart(c)
    \/ ConsumerRun(c)

(***************************************************************************)
(* The login check: setup("login credentials") of login.spec.ts.           *)
(***************************************************************************)
LoginSteps == << "goto", "clickSignIn", "fillEmail", "fillPassword",
                 "clickButton" >>

LoginIndex(step) == CHOOSE i \in 1..Len(LoginSteps) : LoginSteps[i] = step

AfterLogin(step) ==
    IF LoginIndex(step) < Len(LoginSteps)
    THEN LoginSteps[LoginIndex(step) + 1]
    ELSE "passed"

\* The scheduler starts the location's run once its previous run has ended.
LoginStart(l) ==
    /\ Runs("login.spec.ts", tagFilter)
    /\ lpc[l] \in {"idle", "passed", "failed"}
    /\ lpc' = [lpc EXCEPT ![l] = LoginSteps[1]]
    /\ UNCHANGED <<variables, producerVars, consumerVars, tagFilter, globalEnv, now,
                   apc>>

\* An awaited page call of the setup returns; none of them calls the store.
LoginStep(l) ==
    /\ lpc[l] \in Range(LoginSteps)
    /\ lpc' = [lpc EXCEPT ![l] = AfterLogin(lpc[l])]
    /\ UNCHANGED <<variables, producerVars, consumerVars, tagFilter, globalEnv, now,
                   apc>>

\* An awaited page call rejects: the run ends failed.
LoginFails(l) ==
    /\ lpc[l] \in Range(LoginSteps)
    /\ lpc' = [lpc EXCEPT ![l] = "failed"]
    /\ UNCHANGED <<variables, producerVars, consumerVars, tagFilter, globalEnv, now,
                   apc>>

\* The steps of a started run.
LoginRun(l) ==
    \/ LoginStep(l)
    \/ LoginFails(l)

LoginNext(l) ==
    \/ LoginStart(l)
    \/ LoginRun(l)

(***************************************************************************)
(* The API variant: setup("auth credentials") of authAPISetup.spec.ts. It  *)
(* is no check of the group; it is run by hand.                            *)
(***************************************************************************)
AuthKey == "loginToken"

\* The text the store keeps for the login response the setup sends as value.
AuthValue == "[login response]"

AuthSteps == << "postLogin", "json", "postVariables" >>

\* Mutation: the API setup creates its variable under the slot's key.
PostApplyToSlot(key, value) ==
    (variables \ Rows(SlotKey)) \cup {[key |-> SlotKey, value |-> value]}

\* POST /v1/variables: "Creates a new environment variable."
PostApply(key, value) == variables \cup {[key |-> key, value |-> value]}

AuthStart ==
    /\ apc \in {"idle", "passed", "failed"}
    /\ apc' = AuthSteps[1]
    /\ UNCHANGED <<variables, producerVars, consumerVars, tagFilter, globalEnv, now,
                   lpc>>

\* const response = await request.post(<login API>, {data: {user}});
AuthPostLogin ==
    /\ apc = "postLogin"
    /\ apc' = "json"
    /\ UNCHANGED <<variables, producerVars, consumerVars, tagFilter, globalEnv, now,
                   lpc>>

\* const responseBody = await response.json();
AuthJson ==
    /\ apc = "json"
    /\ apc' = "postVariables"
    /\ UNCHANGED <<variables, producerVars, consumerVars, tagFilter, globalEnv, now,
                   lpc>>

\* request.post("https://api.checklyhq.com/v1/variables", ...) is issued.
AuthPostVariables ==
    /\ apc = "postVariables"
    /\ apc' = "awaitPostVariables"
    /\ UNCHANGED <<variables, producerVars, consumerVars, tagFilter, globalEnv, now,
                   lpc>>

\* The store serves the POST and the awaited call settles.
StoreHandlePost ==
    /\ apc = "awaitPostVariables"
    /\ variables' = PostApply(AuthKey, AuthValue)
    /\ apc' = "passed"
    /\ UNCHANGED <<producerVars, consumerVars, tagFilter, globalEnv, now,
                   lpc>>

\* An awaited call of the setup rejects: the run ends failed.
AuthFails ==
    /\ apc \in Range(AuthSteps) \cup {"awaitPostVariables"}
    /\ apc' = "failed"
    /\ UNCHANGED <<variables, producerVars, consumerVars, tagFilter, globalEnv, now,
                   lpc>>

AuthNext ==
    \/ AuthStart
    \/ AuthPostLogin
    \/ AuthJson
    \/ AuthPostVariables
    \/ StoreHandlePost
    \/ AuthFails

(***************************************************************************)
(* The non-extracting Consumer variant: the beforeEach hook and the test   *)
(* "create article" of tests/crud-article.spec.ts.                         *)
(***************************************************************************)
\* The local-storage entries of a page, in the order the context reports them.
EntriesOf(ls) ==
    CHOOSE seq \in [1..Cardinality(ls) -> ls] : Range(seq) = ls

\* page.context().storageState(options): "Returns storage state for this
\* browser context"; options.path names a file to save it to.  A string has
\* no path property: nothing is saved.  The call reads the context and
\* writes nothing into it.
ContextStorageState(ls, options) ==
    JsObject(Snapshot(IF ls = {} THEN <<>> ELSE <<Origin(EntriesOf(ls))>>))

VariantSteps == << "retrieve", "contextStorageState", "createArticle" >>

VariantIndex(step) == CHOOSE i \in 1..Len(VariantSteps) : VariantSteps[i] = step

AfterVariant(step) ==
    IF VariantIndex(step) < Len(VariantSteps)
    THEN VariantSteps[VariantIndex(step) + 1]
    ELSE "passed"

\* The check is started, in a new process with a fresh browser, once its
\* previous run has ended; beforeEach is entered for the first test.
VariantStart(c) ==
    /\ cpc[c] \in {"idle", "passed", "failed"}
    /\ consumerStarts < MaxConsumerRuns
    /\ consumerStarts' = consumerStarts + 1
    /\ cpc' = [cpc EXCEPT ![c] = VariantSteps[1]]
    /\ responseStorageState' = [responseStorageState EXCEPT ![c] = NoResponse]
    /\ storageState' = [storageState EXCEPT ![c] = JsUndefined]
    /\ currentStorageState' = [currentStorageState EXCEPT ![c] = JsUndefined]
    /\ page' = [page EXCEPT ![c] = "blank"]
    /\ localStorage' = [localStorage EXCEPT ![c] = {}]
    /\ hookTrace' = [hookTrace EXCEPT ![c] = <<>>]
    /\ UNCHANGED <<variables, producerVars, otherVars, inFlightAtGet, servedAge>>

\* beforeEach -> retrieveStorageState: context.get(`variables/STORAGE_STATE`).
VariantGet(c) ==
    /\ cpc[c] = "retrieve"
    /\ cpc' = [cpc EXCEPT ![c] = "awaitRetrieve"]
    /\ UNCHANGED <<variables, producerVars, otherVars, responseStorageState,
                   storageState, currentStorageState, page, localStorage,
                   hookTrace, inFlightAtGet, servedAge, consumerStarts>>

\* The store serves the GET; the rest of retrieveStorageState runs and
\* beforeEach binds what it returns.
VariantStoreHandleGet(c) ==
    /\ cpc[c] = "awaitRetrieve"
    /\ responseStorageState' =
           [responseStorageState EXCEPT ![c] = GetResponse(VariablePath(SlotKey))]
    /\ IF ContextThrows(GetStatus(VariablePath(SlotKey)))
       THEN /\ cpc' = [cpc EXCEPT ![c] = "failed"]
            /\ UNCHANGED currentStorageState
       ELSE /\ cpc' = [cpc EXCEPT ![c] = AfterVariant("retrieve")]
            /\ currentStorageState' = [currentStorageState EXCEPT ![c] =
                   retrieveStorageState(GetResponse(VariablePath(SlotKey)))]
    /\ UNCHANGED <<variables, producerVars, otherVars, storageState, page,
                   localStorage, hookTrace, inFlightAtGet, servedAge, consumerStarts>>

\* storageState = await page.context().storageState(currentStorageState);
VariantContextStorageState(c) ==
    /\ cpc[c] = "contextStorageState"
    /\ storageState' = [storageState EXCEPT ![c] =
           ContextStorageState(localStorage[c], currentStorageState[c])]
    /\ hookTrace' = [hookTrace EXCEPT ![c] = Append(@, "storageState")]
    /\ cpc' = [cpc EXCEPT ![c] = AfterVariant("contextStorageState")]
    /\ UNCHANGED <<variables, producerVars, otherVars, responseStorageState,
                   currentStorageState, page, localStorage, inFlightAtGet, servedAge,
                   consumerStarts>>

\* test("create article"): the body starts by clicking "New Article"; no
\* statement of the hook or of the body has navigated the page.
VariantTest(c) ==
    /\ cpc[c] = "createArticle"
    /\ hookTrace' = [hookTrace EXCEPT ![c] = Append(@, "test")]
    /\ cpc' = [cpc EXCEPT ![c] =
           IF page[c] # "blank" /\ LoggedIn(localStorage[c])
           THEN AfterVariant("createArticle") ELSE "failed"]
    /\ UNCHANGED <<variables, producerVars, otherVars, responseStorageState,
                   storageState, currentStorageState, page, localStorage,
                   inFlightAtGet, servedAge, consumerStarts>>

\* An awaited call of the hook can reject (timeout, network error): the run
\* ends failed and its process, with its browser and its locals, is gone.
VariantFails(c) ==
    /\ cpc[c] \in {"retrieve", "awaitRetrieve", "contextStorageState"}
    /\ cpc' = [cpc EXCEPT ![c] = "failed"]
    /\ responseStorageState' = [responseStorageState EXCEPT ![c] = NoResponse]
    /\ storageState' = [storageState EXCEPT ![c] = JsUndefined]
    /\ currentStorageState' = [currentStorageState EXCEPT ![c] = JsUndefined]
    /\ page' = [page EXCEPT ![c] = "blank"]
    /\ localStorage' = [localStorage EXCEPT ![c] = {}]
    /\ hookTrace' = [hookTrace EXCEPT ![c] = <<>>]
    /\ UNCHANGED <<variables, producerVars, otherVars, inFlightAtGet, servedAge,
                   consumerStarts>>

VariantNext(c) ==
    \/ VariantStart(c)
    \/ VariantGet(c)
    \/ VariantStoreHandleGet(c)
    \/ VariantContextStorageState(c)
    \/ VariantTest(c)
    \/ VariantFails(c)

(***************************************************************************)
(* Specification.                                                          *)
(***************************************************************************)
\* No run has started.
InitRuns ==
    /\ pc = [p \in ProducerRuns |-> "idle"]
    /\ storage = [p \in ProducerRuns |-> JsUndefined]
    /\ stringifiedStorage = [p \in ProducerRuns |-> JsUndefined]
    /\ request = [p \in ProducerRuns |-> NoRequest]
    /\ putResponse = [p \in ProducerRuns |-> NoStatus]
    /\ trace = [p \in ProducerRuns |-> <<>>]
    /\ signal = [p \in ProducerRuns |-> "pending"]
    /\ typed = [p \in ProducerRuns |-> EmptyForm]
    /\ session = [p \in ProducerRuns |-> "anonymous"]
    /\ cpc = [c \in ConsumerRuns |-> "idle"]
    /\ responseStorageState = [c \in ConsumerRuns |-> NoResponse]
    /\ storageState = [c \in ConsumerRuns |-> JsUndefined]
    /\ currentStorageState = [c \in ConsumerRuns |-> JsUndefined]
    /\ page = [c \in ConsumerRuns |-> "blank"]
    /\ localStorage = [c \in ConsumerRuns |-> {}]
    /\ hookTrace = [c \in ConsumerRuns |-> <<>>]
    /\ lastCaptured = NoRun
    /\ lastWriter = NoRun
    /\ writtenAt = NoTime
    /\ servedAge = [c \in ConsumerRuns |-> NoTime]
    /\ now = 0
    /\ inFlightAtGet = [c \in ConsumerRuns |-> {}]
    /\ producerStarts = 0
    /\ consumerStarts = 0
    /\ lpc = [l \in LoginRuns |-> "idle"]
    /\ apc = "idle"

\* The account before the first run: the variable has been created with a
\* placeholder value, as the README asks, or it has not.
Init ==
    /\ variables \in { {}, {[key |-> SlotKey, value |-> Placeholder]} }
    /\ recording = FALSE
    /\ tagFilter = NoTag
    /\ globalEnv = ScriptVariables
    /\ InitRuns

Next ==
    \/ \E p \in ProducerRuns : ProducerNext(p)
    \/ \E c \in ConsumerRuns : ConsumerNext(c)

Spec == Init /\ [][Next]_vars

(***************************************************************************)
(* The races on the slot: the Producer runs of both locations and the      *)
(* Consumer run of one location, with the order of captures, writes and    *)
(* reads across the runs recorded.                                         *)
(***************************************************************************)
RaceConsumer == "eu-west-1"

RaceInit ==
    /\ variables \in { {}, {[key |-> SlotKey, value |-> Placeholder]} }
    /\ recording = TRUE
    /\ tagFilter = NoTag
    /\ globalEnv = ScriptVariables
    /\ InitRuns

RaceNext ==
    \/ \E p \in ProducerRuns : ProducerNext(p)
    \/ ConsumerNext(RaceConsumer)

RaceSpec == RaceInit /\ [][RaceNext]_vars

\* Every awaited call settles (it returns or it rejects with its timeout) and
\* the scheduler starts the runs that are due: a step that stays possible is
\* eventually taken.
FairRaceSpec == RaceSpec /\ WF_vars(RaceNext)

(***************************************************************************)
(* The checks as `npx checkly test` runs them: from one location, those    *)
(* selected by tag or all of them; the API setup is run by hand next to    *)
(* them. The account holds no variable, the placeholder, or a snapshot an  *)
(* earlier Producer run has written.                                       *)
(***************************************************************************)
CliLocation == "eu-west-1"

CliInit ==
    /\ variables \in
           { {} } \cup
           { {[key |-> SlotKey, value |-> v]} :
                 v \in {Placeholder}
                         \cup {StringifySnapshot(s) : s \in SnapshotSet} }
    /\ recording = FALSE
    /\ tagFilter \in {"storage", "check", NoTag}
    /\ globalEnv = ScriptVariables
    /\ InitRuns

CliNext ==
    \/ ProducerNext(CliLocation)
    \/ ConsumerNext(CliLocation)
    \/ LoginNext(CliLocation)
    \/ AuthNext

CliSpec == CliInit /\ [][CliNext]_vars

(***************************************************************************)
(* The checks of the tests/ directory: the Producer and the non-extracting *)
(* Consumer variant, neither in a group nor tagged, each with one run at a *)
(* time.  The slot holds the placeholder or a snapshot written earlier, or *)
(* the variable has not been created.                                      *)
(***************************************************************************)
VariantRun == "eu-west-1"

VariantInit ==
    /\ variables \in
           { {} } \cup
           { {[key |-> SlotKey, value |-> v]} :
                 v \in {Placeholder}
                         \cup {StringifySnapshot(s) : s \in SnapshotSet} }
    /\ recording = FALSE
    /\ tagFilter = NoTag
    /\ globalEnv = ScriptVariables
    /\ InitRuns

VariantChecksNext ==
    \/ ProducerNext(VariantRun)
    \/ VariantNext(VariantRun)

VariantSpec == VariantInit /\ [][VariantChecksNext]_vars

(***************************************************************************)
(* One location's Producer and Consumer runs under the default timeouts of *)
(* the collaborators: every awaited call of a started run settles, it      *)
(* returns or it rejects when its timeout has passed.  Nothing is assumed  *)
(* of the scheduler.                                                       *)
(***************************************************************************)
TimeoutLocation == "eu-west-1"

TimeoutNext ==
    \/ ProducerNext(TimeoutLocation)
    \/ ConsumerNext(TimeoutLocation)

TimeoutSpec ==
    /\ Init
    /\ [][TimeoutNext]_vars
    /\ WF_vars(ProducerRun(TimeoutLocation))
    /\ WF_vars(ConsumerRun(TimeoutLocation))

(***************************************************************************)
(* One location's Producer run and login check in the environment the      *)
(* constructs give them, with or without the scripts' variables defined    *)
(* for all checks as well.                                                 *)
(***************************************************************************)
EnvLocation == "eu-west-1"

EnvInit ==
    /\ variables \in { {}, {[key |-> SlotKey, value |-> Placeholder]} }
    /\ recording = FALSE
    /\ tagFilter = NoTag
    /\ globalEnv \in { {}, ScriptVariables }
    /\ InitRuns

EnvNext ==
    \/ ProducerNext(EnvLocation)
    \/ LoginNext(EnvLocation)

EnvSpec == EnvInit /\ [][EnvNext]_vars

(***************************************************************************)
(* The workflow of the README's CI integration: the step "Run auth" runs   *)
(* `npx checkly test -t storage`, and when it has succeeded the step "Run  *)
(* checks" runs `npx checkly test`.  A command runs each check it selects  *)
(* once, the selected checks side by side, and succeeds when all of them   *)
(* have passed; a failed step ends the workflow.                           *)
(***************************************************************************)
CiLocation == "eu-west-1"

CiInit ==
    /\ variables \in { {}, {[key |-> SlotKey, value |-> Placeholder]} }
    /\ recording = FALSE
    /\ tagFilter = "storage"
    /\ globalEnv = ScriptVariables
    /\ InitRuns

\* The command starts a check it selects and has not run yet.
CiProducerStart(p) == pc[p] = "idle" /\ ProducerStart(p)
CiConsumerStart(c) == cpc[c] = "idle" /\ ConsumerStart(c)
CiLoginStart(l) == lpc[l] = "idle" /\ LoginStart(l)

\* "Run auth" has succeeded; "Run checks" begins, with no -t option.
CiRunChecks ==
    /\ tagFilter = "storage"
    /\ pc[CiLocation] = "passed"
    /\ tagFilter' = NoTag
    /\ pc' = [pc EXCEPT ![CiLocation] = "idle"]
    /\ UNCHANGED <<variables, storage, stringifiedStorage, request, putResponse,
                   trace, signal, typed, session, recording, lastCaptured,
                   lastWriter, writtenAt, producerStarts, consumerVars,
                   globalEnv, now, lpc, apc>>

CiNext ==
    \/ CiProducerStart(CiLocation)
    \/ ProducerRun(CiLocation)
    \/ CiConsumerStart(CiLocation)
    \/ ConsumerRun(CiLocation)
    \/ CiLoginStart(CiLocation)
    \/ LoginRun(CiLocation)
    \/ CiRunChecks

CiSpec == CiInit /\ [][CiNext]_vars

(***************************************************************************)
(* The deployed schedule: `npx checkly deploy` runs the storage check every *)
(* 60 minutes and the crud-article check every 10 minutes.  Time is counted *)
(* in minutes; a run starts at the minute it is due and ends within         *)
(* MaxRunMinutes of it.  Every Producer run succeeds: the variable exists   *)
(* and no step of the run fails.                                            *)
(***************************************************************************)
StorageFrequency == 60
CheckFrequency == 10
MaxRunMinutes == 1
Horizon == 62

ScheduleLocation == "eu-west-1"

\* The minute at which the next run of each check is due, and the minute at
\* which the latest one was started.
ProducerDue == producerStarts * StorageFrequency
ConsumerDue == consumerStarts * CheckFrequency
ProducerStartedAt == (producerStarts - 1) * StorageFrequency
ConsumerStartedAt == (consumerStarts - 1) * CheckFrequency

ScheduleInit ==
    /\ variables = {[key |-> SlotKey, value |-> Placeholder]}
    /\ recording = TRUE
    /\ tagFilter = NoTag
    /\ globalEnv = ScriptVariables
    /\ InitRuns

ScheduledProducerStart(p) ==
    /\ now = ProducerDue
    /\ ProducerBegins(p)

ScheduledConsumerStart(c) ==
    /\ now = ConsumerDue
    /\ ConsumerBegins(c)

\* A step of a Producer run that succeeds.
ProducerSucceeds(p) ==
    /\ ProducerRun(p)
    /\ pc'[p] # "failed"

\* Mutation: a minute passes whether or not the started runs have ended
\* within MaxRunMinutes.
TickIgnoresRunLimit ==
    /\ now < Horizon
    /\ now # ProducerDue
    /\ now # ConsumerDue
    /\ now' = now + 1
    /\ UNCHANGED <<variables, producerVars, consumerVars, tagFilter, globalEnv,
                   lpc, apc>>

\* A minute passes: the runs due at this minute have been started, and a
\* started run ends within MaxRunMinutes of its start.
Tick ==
    /\ now < Horizon
    /\ now # ProducerDue
    /\ now # ConsumerDue
    /\ \A p \in ProducerRuns :
           pc[p] \notin {"idle", "passed", "failed"}
               => now + 1 - ProducerStartedAt <= MaxRunMinutes
    /\ \A c \in ConsumerRuns :
           cpc[c] \notin {"idle", "passed", "failed"}
               => now + 1 - ConsumerStartedAt <= MaxRunMinutes
    /\ now' = now + 1
    /\ UNCHANGED <<variables, producerVars, consumerVars, tagFilter, globalEnv,
                   lpc, apc>>

ScheduleNext ==
    \/ ScheduledProducerStart(ScheduleLocation)
    \/ ProducerSucceeds(ScheduleLocation)
    \/ ScheduledConsumerStart(ScheduleLocation)
    \/ ConsumerRun(ScheduleLocation)
    \/ Tick

ScheduleSpec == ScheduleInit /\ [][ScheduleNext]_vars

(***************************************************************************)
(* Properties.                                                             *)
(***************************************************************************)
IsPrefix(seq, full) ==
    /\ Len(seq) <= Len(full)
    /\ \A i \in 1..Len(seq) : seq[i] = full[i]

\* The calls of `seq` that belong to `names`, in the order they were made.
RECURSIVE Restrict(_, _)
Restrict(seq, names) ==
    IF seq = <<>> THEN <<>>
    ELSE IF Head(seq) \in names
         THEN <<Head(seq)>> \o Restrict(Tail(seq), names)
         ELSE Restrict(Tail(seq), names)

PutIssued(p) == request[p] # NoRequest

\* The value run p has sent to the store.
Written(p) == request[p].body.data.value

\* C1: in every Producer run the login form is submitted, then the awaited
\* response is observed, then the snapshot is captured, then serialized, then
\* PUT; no run has issued a PUT without having observed the response and
\* captured the snapshot.
C1_ProducerOrder ==
    \A p \in ProducerRuns :
        /\ IsPrefix(Restrict(trace[p], {"clickButton", "waitForResponse",
                                        "storageState", "stringify", "put"}),
                    << "clickButton", "waitForResponse", "storageState",
                       "stringify", "put" >>)
        /\ PutIssued(p) =>
              /\ "waitForResponse" \in Range(trace[p])
              /\ "storageState" \in Range(trace[p])
              /\ storage[p].type = "object"

C1_Witness ==
    \E p \in ProducerRuns : PutIssued(p) /\ pc[p] = "passed"

\* C2: the value a Producer run PUTs is the serialization of the snapshot
\* that run captured, and the request names STORAGE_STATE both in its path
\* and in its body; the Producer writes no other key.
C2_PutCarriesOwnSnapshot ==
    \A p \in ProducerRuns :
        PutIssued(p) =>
            /\ request[p].method = "PUT"
            /\ request[p].path = "variables/STORAGE_STATE"
            /\ request[p].body.data.key = "STORAGE_STATE"
            /\ storage[p].type = "object"
            /\ Written(p) = StringifySnapshot(storage[p].obj)
            /\ storage[p].obj = Snapshot(<<Origin(<<Entry("jwt", "T1")>>)>>)
                  => Written(p) =
                       "{\"cookies\":[],\"origins\":[{\"origin\":\"https://app.example\",\"localStorage\":[{\"name\":\"jwt\",\"value\":\"T1\"}]}]}"

C2_Witness ==
    \E p \in ProducerRuns :
        /\ PutIssued(p)
        /\ storage[p].obj = Snapshot(<<Origin(<<Entry("jwt", "T1")>>)>>)

\* C3: the slot never holds more than one value; a successful Producer
\* write leaves it holding exactly the value of that write (last write wins,
\* nothing of the earlier value is kept), and the slot changes at no other
\* step, so it always holds the value of the most recent successful write.
C3_LastWriteWins ==
    /\ [](Cardinality(Rows(SlotKey)) <= 1)
    /\ [][\A p \in ProducerRuns :
             (pc[p] = "awaitPut" /\ pc'[p] = "passed")
                => {r \in variables' : r.key = SlotKey}
                      = {[key |-> SlotKey, value |-> Written(p)]}]_vars
    /\ [][{r \in variables' : r.key = SlotKey} # Rows(SlotKey)
             => \E p \in ProducerRuns :
                   pc[p] = "awaitPut" /\ pc'[p] = "passed"]_vars

\* Two writes with different tokens have been served; the slot holds the
\* value of one of them only.
C3_Witness ==
    \E p, q \in ProducerRuns :
        /\ pc[p] = "passed" /\ pc[q] = "passed"
        /\ Written(p) # Written(q)
        /\ Rows(SlotKey) = {[key |-> SlotKey, value |-> Written(q)]}

\* C10: for the test of the Consumer, beforeEach navigates to the base URL,
\* then writes to local storage, then reloads; the test body starts only
\* after the reload, and local storage is never written before the first
\* navigation.
C10_ReinjectionOrder ==
    \A c \in ConsumerRuns :
        /\ IsPrefix(hookTrace[c], << "goto", "setItem", "reload", "test" >>)
        /\ "test" \in Range(hookTrace[c]) => page[c] = "reloaded"
        /\ localStorage[c] # {} => page[c] # "blank"

C10_Witness ==
    \E c \in ConsumerRuns :
        hookTrace[c] = << "goto", "setItem", "reload", "test" >>

(***************************************************************************)
(* Retrieval and reinjection, as documented: retrieveStorageState is "to   *)
(* parse and return token", and beforeEach unpacks { name, value } from    *)
(* what it returned.                                                       *)
(***************************************************************************)
\* origins[0].localStorage[0] of a snapshot.
FirstEntry(snapshot) == snapshot.origins[1].localStorage[1]

ValidJSON(text) == \E s \in SnapshotSet : text = StringifySnapshot(s)

\* retrieveStorageState has returned to beforeAll.
Returned(c) ==
    \/ cpc[c] \in {"goto", "evaluate", "reload", "test", "passed"}
    \/ hookTrace[c] # <<>>

\* The GET of run c answered with the value run p had written.
ReadFrom(c, p) ==
    /\ responseStorageState[c].status = 200
    /\ PutIssued(p)
    /\ storage[p].type = "object"
    /\ responseStorageState[c].body.value = Written(p)

\* The token a retrieved value stands for: the value of a {name, value}
\* entry, or the retrieved string itself.
TokenOf(v) ==
    IF v.type = "object" /\ "value" \in DOMAIN v.obj
    THEN JsString(v.obj.value)
    ELSE v

\* C4: round trip: when a Producer run serialized and wrote snapshot S and a
\* Consumer retrieved that value, the token the Consumer obtained equals the
\* token of S, origins[0].localStorage[0].value.
C4_RoundTrip ==
    \A c \in ConsumerRuns : \A p \in ProducerRuns :
        (Returned(c) /\ ReadFrom(c, p) /\ HasToken(storage[p].obj))
            => TokenOf(storageState[c])
                  = JsString(FirstEntry(storage[p].obj).value)

\* C5: positional extraction: for a slot value that serializes a snapshot
\* whose origins[0].localStorage is not empty, retrieval returns the first
\* local-storage entry of the first origin (value "T1" for the entry
\* {name: "jwt", value: "T1"}), not the serialized text nor another entry.
C5_PositionalExtraction ==
    \A c \in ConsumerRuns : \A s \in SnapshotSet :
        ( /\ Returned(c)
          /\ HasToken(s)
          /\ responseStorageState[c].status = 200
          /\ responseStorageState[c].body.value = StringifySnapshot(s) )
            => storageState[c] \in
                  {JsObject(FirstEntry(s)), JsString(FirstEntry(s).value)}

\* C6: end to end: when a Producer run wrote a snapshot whose token entry is
\* (k, v) and a Consumer retrieved that value, then after beforeEach (from
\* the reload on) the page's local storage holds the entry k -> v.
C6_EndToEnd ==
    \A c \in ConsumerRuns : \A p \in ProducerRuns :
        ( /\ "reload" \in Range(hookTrace[c])
          /\ ReadFrom(c, p)
          /\ HasToken(storage[p].obj) )
            => FirstEntry(storage[p].obj) \in localStorage[c]

\* C7: when the slot value is not valid JSON, retrieval fails: it returns
\* nothing to its caller.
C7_InvalidJsonFails ==
    \A c \in ConsumerRuns :
        ( /\ responseStorageState[c].status = 200
          /\ ~ValidJSON(responseStorageState[c].body.value) )
            => ~Returned(c) /\ storageState[c] = JsUndefined

\* C8: when the snapshot in the slot has an empty origins array, extraction
\* fails and nothing is written to the page's local storage.
C8_EmptyOriginsFails ==
    \A c \in ConsumerRuns :
        ( /\ responseStorageState[c].status = 200
          /\ responseStorageState[c].body.value
                = StringifySnapshot(Snapshot(<<>>)) )
            => ~Returned(c) /\ localStorage[c] = {}

\* C9: when the slot is empty (no variable, or only the placeholder) or its
\* snapshot lacks the positional entry, the Consumer run fails in retrieval,
\* before any page call and any write to local storage.
C9_EmptySlotFailsInRetrieval ==
    \A c \in ConsumerRuns :
        LET resp == responseStorageState[c] IN
        ( \/ resp.status = 404
          \/ /\ resp.status = 200
             /\ \/ resp.body.value = Placeholder
                \/ \E s \in SnapshotSet :
                      ~HasToken(s) /\ resp.body.value = StringifySnapshot(s) )
            => /\ cpc[c] \in {"json", "failed"}
               /\ hookTrace[c] = <<>>
               /\ localStorage[c] = {}

(***************************************************************************)
(* The slot's lifecycle and the Producer's failures.                       *)
(***************************************************************************)
SlotRow(value) == [key |-> SlotKey, value |-> value]

\* The store has answered the PUT of run p in this step, with a status other
\* than the rejection of its credentials.
PutAnswered(p) ==
    /\ pc[p] = "awaitPut"
    /\ putResponse'[p] \notin {NoStatus, Unauthorized}

\* The statements of the setup that precede context.put.
StepsBeforePut ==
    {ProducerSteps[i] : i \in 1..(StepIndex("put") - 1)}

\* C12, as claimed: whenever the store has answered a Producer's PUT, the
\* slot exists and holds the value of that PUT, whether or not the slot
\* existed before.
C12_CreatedOrOverwritten ==
    [][\A p \in ProducerRuns :
          PutAnswered(p) => Rows(SlotKey)' = {SlotRow(Written(p))}]_vars

\* C12: whenever the store has answered a Producer's PUT: if the slot existed,
\* the answer is 200, the slot holds the value of that PUT and the run
\* passes; if the slot did not exist, the answer is 404, the slot still does
\* not exist and the run fails (PUT updates a variable, it creates none).
C12_OverwrittenNeverCreated ==
    [][\A p \in ProducerRuns :
          PutAnswered(p) =>
              IF Rows(SlotKey) # {}
              THEN /\ putResponse'[p] = 200
                   /\ Rows(SlotKey)' = {SlotRow(Written(p))}
                   /\ pc'[p] = "passed"
              ELSE /\ putResponse'[p] = 404
                   /\ Rows(SlotKey)' = {}
                   /\ pc'[p] = "failed"]_vars

\* A PUT has overwritten the placeholder with the snapshot of its run.
C12_Witness ==
    \E p \in ProducerRuns :
        /\ putResponse[p] = 200
        /\ pc[p] = "passed"
        /\ Written(p) # Placeholder
        /\ Rows(SlotKey) = {SlotRow(Written(p))}

\* C13: when a step before the write fails, the run ends failed without
\* having issued a PUT and the step leaves the store as it was; a failed run
\* takes no further step (until the scheduler starts the next run), so it
\* issues no PUT later either.
C13_FailureBeforeWrite ==
    [][\A p \in ProducerRuns :
          /\ (pc[p] \in StepsBeforePut /\ pc'[p] = "failed")
                => /\ variables' = variables
                   /\ request[p] = NoRequest
                   /\ request'[p] = NoRequest
          /\ pc[p] = "failed"
                => /\ pc'[p] \in {"failed", ProducerSteps[1]}
                   /\ pc'[p] = "failed" => request'[p] = request[p]]_vars

\* A run has failed before its write while the slot holds a value.
C13_Witness ==
    \E p \in ProducerRuns :
        /\ pc[p] = "failed"
        /\ ~PutIssued(p)
        /\ Rows(SlotKey) # {}

\* C14: when the awaited PUT settles, either the run passes and the slot
\* holds the value of that PUT, or the run fails (the request was lost or the
\* store answered with an error status) and the store is as it was; a failed
\* run takes no further step, so nothing is rolled back or cleaned up.
C14_WriteFailurePropagates ==
    [][\A p \in ProducerRuns :
          /\ (pc[p] = "awaitPut" /\ pc'[p] # "awaitPut")
                => \/ /\ pc'[p] = "passed"
                      /\ putResponse'[p] = 200
                      /\ Rows(SlotKey)' = {SlotRow(Written(p))}
                   \/ /\ pc'[p] = "failed"
                      /\ putResponse'[p] # 200
                      /\ variables' = variables
          /\ (pc[p] = "failed" /\ PutIssued(p))
                => \/ /\ pc'[p] = "failed"
                      /\ request'[p] = request[p]
                      /\ putResponse'[p] = putResponse[p]
                   \/ pc'[p] = ProducerSteps[1]]_vars

\* The store has rejected the credentials of a PUT: the run is failed and
\* the slot does not hold the value of that PUT.
C14_Witness ==
    \E p \in ProducerRuns :
        /\ pc[p] = "failed"
        /\ putResponse[p] = Unauthorized
        /\ Rows(SlotKey) # {}
        /\ Rows(SlotKey) # {SlotRow(Written(p))}

\* C15: a Consumer run whose GET returned the placeholder has no valid
\* token, never has a logged-in page and never passes: once its test body
\* has run, the run is failed.
C15_PlaceholderReadFails ==
    \A c \in ConsumerRuns :
        ( /\ responseStorageState[c].status = 200
          /\ responseStorageState[c].body.value = Placeholder )
            => /\ cpc[c] # "passed"
               /\ TokenOf(storageState[c]) \notin {JsString(t) : t \in ValidTokens}
               /\ ~LoggedIn(localStorage[c])
               /\ "test" \in Range(hookTrace[c]) => cpc[c] = "failed"

\* A Consumer run read the placeholder, ran its hooks and its test body, and
\* failed.
C15_Witness ==
    \E c \in ConsumerRuns :
        /\ responseStorageState[c].status = 200
        /\ responseStorageState[c].body.value = Placeholder
        /\ "test" \in Range(hookTrace[c])
        /\ cpc[c] = "failed"

(***************************************************************************)
(* Concurrent runs.                                                        *)
(***************************************************************************)
\* The values the slot can hold as a whole: the placeholder, or the
\* serialization of a snapshot.
CompleteValues ==
    {Placeholder} \cup {StringifySnapshot(s) : s \in SnapshotSet}

\* The GET of run c returned something else than a whole slot value: a part
\* of one, or "no such variable" although the variable exists.
PartialRead(c) ==
    \/ /\ responseStorageState[c].status = 200
       /\ responseStorageState[c].body.value \notin CompleteValues
    \/ /\ responseStorageState[c].status = 404
       /\ Rows(SlotKey) # {}

\* The GET of run c is served in this step.
GetServed(c) ==
    /\ cpc[c] = "awaitGet"
    /\ responseStorageState'[c] # NoResponse

C19_LastAppliedWins ==
    \A p \in ProducerRuns :
        /\ pc[p] = "passed" => putResponse[p] = 200
        /\ (putResponse[p] \notin {NoStatus, Unauthorized} /\ Rows(SlotKey) # {})
              => putResponse[p] = 200 /\ pc[p] = "passed"
        /\ (lastWriter = p /\ pc[p] = "passed")
              => Rows(SlotKey) = {SlotRow(Written(p))}

\* Both runs have written; run q captured after run p, but the PUT of run p
\* was applied last: the slot holds the earlier snapshot.
C19_Witness ==
    \E p, q \in ProducerRuns :
        /\ p # q
        /\ pc[p] = "passed" /\ pc[q] = "passed"
        /\ lastCaptured = q
        /\ lastWriter = p
        /\ Written(p) # Written(q)
        /\ Rows(SlotKey) = {SlotRow(Written(p))}

C11_SingleWriter ==
    [][ /\ Rows(SlotKey)' # Rows(SlotKey)
              => \E p \in ProducerRuns :
                    /\ pc[p] = "awaitPut" /\ pc'[p] = "passed"
                    /\ request[p].method = "PUT"
        /\ Rows(SlotKey) # {} => Rows(SlotKey)' # {}
        /\ cpc' # cpc => variables' = variables
        /\ lpc' # lpc => variables' = variables
        /\ apc' # apc
              => /\ Rows(SlotKey)' = Rows(SlotKey)
                 /\ variables \subseteq variables'
                 /\ \A r \in variables' \ variables : r.key = AuthKey ]_vars

\* No Producer has run; a Consumer run, a login check run and the API setup
\* have run to their end, the API setup has created its variable, and the
\* slot holds a snapshot.
C11_Witness ==
    /\ producerStarts = 0
    /\ cpc[CliLocation] = "failed" /\ "test" \in Range(hookTrace[CliLocation])
    /\ lpc[CliLocation] = "passed"
    /\ apc = "passed"
    /\ Rows(AuthKey) # {}
    /\ \E s \in SnapshotSet : Rows(SlotKey) = {SlotRow(StringifySnapshot(s))}

\* C16: tag "storage" selects the check of storageState.spec.ts only and tag
\* "check" selects the checks of login.spec.ts and crud-article.spec.ts only;
\* every check carries exactly one of the two tags; under tag "storage" no
\* Consumer or login run ever starts and the Producer can, under tag "check"
\* no Producer run ever starts and the two others can.
C16_TagsPartitionChecks ==
    /\ {ch.entrypoint : ch \in Selected("storage")} = {"storageState.spec.ts"}
    /\ {ch.entrypoint : ch \in Selected("check")}
          = {"login.spec.ts", "crud-article.spec.ts"}
    /\ \A ch \in Checks : Cardinality(ch.tags \cap {"storage", "check"}) = 1
    /\ tagFilter = "storage"
          => /\ \A c \in ConsumerRuns : cpc[c] = "idle"
             /\ \A l \in LoginRuns : lpc[l] = "idle"
             /\ pc[CliLocation] = "idle" => ENABLED ProducerStart(CliLocation)
    /\ tagFilter = "check"
          => /\ \A p \in ProducerRuns : pc[p] = "idle"
             /\ cpc[CliLocation] = "idle" => ENABLED ConsumerStart(CliLocation)
             /\ lpc[CliLocation] = "idle" => ENABLED LoginStart(CliLocation)

\* Under tag "check" the crud-article check and the login check have run and
\* the storage check has not.
C16_Witness ==
    /\ tagFilter = "check"
    /\ cpc[CliLocation] = "failed" /\ "test" \in Range(hookTrace[CliLocation])
    /\ lpc[CliLocation] = "passed"
    /\ pc[CliLocation] = "idle"

(***************************************************************************)
(* The non-extracting variant.                                             *)
(***************************************************************************)
\* The local-storage entries a snapshot text carries.
EntriesOfText(text) ==
    LET s == CHOOSE s \in SnapshotSet : StringifySnapshot(s) = text
    IN  UNION {Range(s.origins[i].localStorage) : i \in DOMAIN s.origins}

\* C17: in the non-extracting variant, once beforeEach has retrieved a
\* snapshot and made the context's storageState call, the session's local
\* storage contains the entries of the retrieved snapshot before the test
\* body runs.
C17_RetrievedStateInjected ==
    \A c \in ConsumerRuns :
        (/\ cpc[c] = "createArticle"
         /\ currentStorageState[c].type = "string"
         /\ ValidJSON(currentStorageState[c].str))
        => EntriesOfText(currentStorageState[c].str) \subseteq localStorage[c]

(***************************************************************************)
(* Retries.                                                                *)
(***************************************************************************)
Terminal == {"idle", "passed", "failed"}

\* The place of a Producer statement in the body of the setup; the wait for
\* the answer of an awaited call comes right after the call.
Position(label) ==
    IF label = "awaitPut" THEN 2 * StepIndex("put") + 1
    ELSE IF label = "awaitResponse" THEN 2 * StepIndex("waitForResponse") + 1
    ELSE 2 * StepIndex(label)

\* The place of a Consumer statement: retrieveStorageState in beforeAll,
\* then the page calls of beforeEach and the test body.
ConsumerPosition(label) ==
    CASE label = "get"      -> 1
      [] label = "awaitGet" -> 2
      [] label = "json"     -> 3
      [] OTHER              -> 3 + HookIndex(label)

PutsIssued(p) == Cardinality({i \in DOMAIN trace[p] : trace[p][i] = "put"})

\* C21: a Producer run issues at most one PUT and a call of
\* retrieveStorageState issues its GET once (the call is answered only for
\* the one GET it issued); a run only moves forward through its statements,
\* from a failed statement it goes nowhere but to the failed end, a run that
\* went on had its request answered without error, and an ended run is
\* followed only by a new run from the first statement.
C21_NoRetries ==
    /\ [](\A p \in ProducerRuns :
            /\ PutsIssued(p) <= 1
            /\ pc[p] = "passed" => putResponse[p] = 200)
    /\ [](\A c \in ConsumerRuns :
            cpc[c] \in {"json"} \cup Range(BeforeEachSteps)
                => responseStorageState[c].status = 200)
    /\ [][\A p \in ProducerRuns :
            pc'[p] # pc[p] =>
                \/ pc[p] \in Terminal /\ pc'[p] = ProducerSteps[1]
                \/ pc[p] \notin Terminal /\ pc'[p] = "failed"
                \/ pc[p] = "awaitPut" /\ pc'[p] = "passed"
                \/ /\ pc[p] \notin Terminal
                   /\ pc'[p] \notin Terminal
                   /\ Position(pc'[p]) > Position(pc[p])]_vars
    /\ [][\A c \in ConsumerRuns :
            cpc'[c] # cpc[c] =>
                /\ \/ cpc[c] \in Terminal /\ cpc'[c] = "get"
                   \/ cpc[c] \notin Terminal /\ cpc'[c] = "failed"
                   \/ cpc[c] = "test" /\ cpc'[c] = "passed"
                   \/ /\ cpc[c] \notin Terminal
                      /\ cpc'[c] \notin Terminal
                      /\ ConsumerPosition(cpc'[c]) > ConsumerPosition(cpc[c])
                /\ cpc'[c] = "awaitGet" => cpc[c] = "get"
                /\ cpc'[c] = "json" => cpc[c] = "awaitGet"]_vars

\* A Producer run has failed on the answer to its one PUT and a Consumer run
\* on the answer to its one GET.
C21_Witness ==
    /\ \E p \in ProducerRuns :
          pc[p] = "failed" /\ PutsIssued(p) = 1 /\ putResponse[p] = 404
    /\ \E c \in ConsumerRuns :
          cpc[c] = "failed" /\ responseStorageState[c].status = 404

(***************************************************************************)
(* The completion signal.                                                  *)
(***************************************************************************)
\* C25: the wait cannot miss the signal: no Producer run is waiting for the
\* response, its listener registered, when the page has already received the
\* response after the click.
C25_SignalNotMissed ==
    \A p \in ProducerRuns : ~(pc[p] = "awaitResponse" /\ signal[p] = "arrived")

(***************************************************************************)
(* Termination.                                                            *)
(***************************************************************************)
\* C29: every started Producer run and every started Consumer run reaches
\* the passed or the failed end.
C29_RunsTerminate ==
    /\ \A p \in ProducerRuns :
          (pc[p] \notin Terminal) ~> (pc[p] \in {"passed", "failed"})
    /\ \A c \in ConsumerRuns :
          (cpc[c] \notin Terminal) ~> (cpc[c] \in {"passed", "failed"})

\* A Producer run that has waited for the response and a Consumer run that
\* has run its hooks have both ended.
C29_Witness ==
    /\ pc[TimeoutLocation] = "passed"
    /\ "waitForResponse" \in Range(trace[TimeoutLocation])
    /\ cpc[TimeoutLocation] \in {"passed", "failed"}
    /\ "reload" \in Range(hookTrace[TimeoutLocation])

(***************************************************************************)
(* One read per Consumer run.                                              *)
(***************************************************************************)
InHooks(c) == cpc[c] \in Range(BeforeEachSteps)

SnapshotOfText(text) == CHOOSE s \in SnapshotSet : StringifySnapshot(s) = text

\* C27: when the run has retrieved a snapshot that carries a token, the
\* local-storage write of beforeEach sets the entry named by the token's name
\* and leaves every entry of another name as it was.
C27_OneEntryRestored ==
    [][\A c \in ConsumerRuns :
          ( /\ cpc[c] = "evaluate"
            /\ cpc'[c] = AfterHook("evaluate")
            /\ responseStorageState[c].status = 200
            /\ ValidJSON(responseStorageState[c].body.value)
            /\ HasToken(SnapshotOfText(responseStorageState[c].body.value)) )
          => LET token ==
                     FirstEntry(SnapshotOfText(responseStorageState[c].body.value))
             IN  /\ \E e \in localStorage'[c] : e.name = token.name
                 /\ {e \in localStorage'[c] : e.name # token.name}
                        = {e \in localStorage[c] : e.name # token.name}]_vars

(***************************************************************************)
(* The environment of the checks.                                          *)
(***************************************************************************)
SuppliedKeys(id) == {e.key : e \in EnvironmentVariables(id)}

\* C23: once a Producer run has filled in the login form, every name a
\* check's script reads from process.env is a key of its construct's
\* environmentVariables, and the form holds the configured username and
\* password.
C23_EnvironmentSupplied ==
    \A p \in ProducerRuns :
        "fillPassword" \in Range(trace[p])
            => /\ \A ch \in Checks :
                     ScriptReads(ch.entrypoint) \subseteq SuppliedKeys(ch.id)
               /\ typed[p] = [ email |-> DotEnv.USER_NAME,
                               password |-> DotEnv.PASSWORD ]

(***************************************************************************)
(* What the Producer writes.                                               *)
(***************************************************************************)
AuthenticatedText(text) ==
    \E s \in SnapshotSet : HasToken(s) /\ text = StringifySnapshot(s)

SlotValid == \E r \in Rows(SlotKey) : AuthenticatedText(r.value)

\* C24: every value a Producer run sends to the slot is the text of a
\* snapshot that carries the token, and a slot that holds such a snapshot is
\* never left holding anything else.
C24_WritesAuthenticated ==
    /\ [](\A p \in ProducerRuns :
            PutIssued(p) => AuthenticatedText(Written(p)))
    /\ [][SlotValid => SlotValid']_vars

(***************************************************************************)
(* The CI workflow.                                                        *)
(***************************************************************************)
Running(p) == pc[p] \notin Terminal
ConsumerRunning(c) == cpc[c] \notin Terminal

\* C22: in the CI workflow a Consumer run starts only when a Producer run
\* has written its snapshot to the slot, and no Producer run is under way
\* while a Consumer run is.
C22_ProducerBeforeConsumers ==
    /\ \A c \in ConsumerRuns :
          cpc[c] # "idle" => \E r \in Rows(SlotKey) : ValidJSON(r.value)
    /\ \A p \in ProducerRuns : \A c \in ConsumerRuns :
          ~(Running(p) /\ ConsumerRunning(c))

(***************************************************************************)
(* Freshness under the deployed schedule.                                  *)
(***************************************************************************)

\* C28, as claimed: under the deployed schedule, with every Producer run
\* succeeding, every Consumer read served after the first Producer write
\* returns a snapshot written at most 60 minutes earlier.
C28_AtMostSixtyMinutes ==
    \A c \in ConsumerRuns : servedAge[c] <= StorageFrequency

\* C28, amended: under the deployed schedule, with every Producer run
\* succeeding, every Consumer read served after the first Producer write
\* returns a snapshot written at most 60 minutes plus the length of a run
\* earlier.
C28_AtMostPeriodPlusRun ==
    \A c \in ConsumerRuns : servedAge[c] <= StorageFrequency + MaxRunMinutes

\* A read is served, before the write of the run due at minute 60 is applied,
\* the snapshot written more than 60 minutes earlier.
C28_Witness ==
    \E c \in ConsumerRuns :
        /\ cpc[c] = "json"
        /\ servedAge[c] > StorageFrequency
        /\ producerStarts = 2
        /\ responseStorageState[c].status = 200

====
